---- MODULE Spec2Model ----
(***************************************************************************)
(* Model of keystroke-auth: the key-event pipeline of KeyController        *)
(* (src/data_collection/keyboard/key_controller.py), the Key record        *)
(* (src/models/key_model.py) and the identity resolvers of SystemInfo      *)
(* (src/system_info.py).                                                   *)
(*                                                                         *)
(* Python strings are sequences of characters; a character is a one-       *)
(* character TLA+ string, except the control characters U+001B and U+0008, *)
(* written "ESC" and "BS", and the zero code unit, written "NUL".          *)
(* Every operation returns an outcome record                               *)
(* [outcome, value, exc, msg, calls]: it either returns a value or raises  *)
(* an exception, and calls is the sequence of OS calls it made, in order.  *)
(***************************************************************************)
EXTENDS Integers, Sequences, FiniteSets, TLC

VARIABLES
    os,        \* the OS state the key pipeline reads (focus, layout, key maps, ...)
    last,      \* the last KeyController call: operation, arguments, outcome
    handles,   \* number of process handles this process holds open
    idos,      \* the OS state the identity resolvers read
    idlast,    \* the last SystemInfo call: operation, outcome
    ncalls,    \* per resolver, how many times it has been called
    queries,   \* per resolver, how many of its calls have queried the OS
    first,     \* per resolver, what its first call gave back
    snapshots, \* the SystemInfo objects constructed so far, in order
    changed    \* the OS state changed after the first SystemInfo was constructed

vars == <<os, last, handles, idos, idlast, ncalls, queries, first, snapshots, changed>>
keyVars == <<os, last, handles>>
idVars == <<idos, idlast, ncalls, queries, first, snapshots, changed>>

----------------------------------------------------------------------------
(* Bounds of the model *)

MaxScanCode == 2
MaxTime == 1
MaxUid == 1
MaxCalls == 2

----------------------------------------------------------------------------
(* Python values and outcomes *)

None == "None"

Return(v, calls) ==
    [outcome |-> "return", value |-> v, exc |-> "", msg |-> "", calls |-> calls]

Raise(exc, msg, calls) ==
    [outcome |-> "raise", value |-> None, exc |-> exc, msg |-> msg, calls |-> calls]

Range(s) == {s[i] : i \in 1..Len(s)}

\* number of occurrences of x in the sequence s
RECURSIVE Count(_, _)
Count(s, x) ==
    IF s = <<>> THEN 0
    ELSE (IF Head(s) = x THEN 1 ELSE 0) + Count(Tail(s), x)

----------------------------------------------------------------------------
(* Python str operations *)

Whitespace == {" ", "\t", "\n", "\r", "\f"}

\* unicodedata.category(c) == "Cc"
ControlCc == {"\t", "\n", "\r", "\f", "ESC", "BS"}

RECURSIVE LStrip(_)
LStrip(s) ==
    IF s # <<>> /\ Head(s) \in Whitespace THEN LStrip(Tail(s)) ELSE s

RECURSIVE RStrip(_)
RStrip(s) ==
    IF s # <<>> /\ s[Len(s)] \in Whitespace
    THEN RStrip(SubSeq(s, 1, Len(s) - 1))
    ELSE s

\* str.strip()
Strip(s) == RStrip(LStrip(s))

\* str.startswith(p)
StartsWith(s, p) == Len(s) >= Len(p) /\ SubSeq(s, 1, Len(p)) = p

\* p in s
Contains(s, p) ==
    \E i \in 1..(Len(s) - Len(p) + 1) : SubSeq(s, i, i + Len(p) - 1) = p

\* str.split(sep) for a one-character sep: empty fields are kept
RECURSIVE SplitOn(_, _, _)
SplitOn(s, seps, cur) ==
    IF s = <<>> THEN <<cur>>
    ELSE IF Head(s) \in seps THEN <<cur>> \o SplitOn(Tail(s), seps, <<>>)
    ELSE SplitOn(Tail(s), seps, Append(cur, Head(s)))

Split(s, sep) == SplitOn(s, {sep}, <<>>)

\* str.split(): runs of whitespace separate, empty fields are dropped
SplitWhitespace(s) == SelectSeq(SplitOn(s, Whitespace, <<>>), LAMBDA w : w # <<>>)

\* str.splitlines(): a trailing line break opens no further line
LineBreaks == {"\n", "\r", "\f"}

SplitLines(s) ==
    LET parts == SplitOn(s, LineBreaks, <<>>)
    IN  IF parts[Len(parts)] = <<>> THEN SubSeq(parts, 1, Len(parts) - 1) ELSE parts

Digit(d) == <<"0", "1", "2", "3", "4", "5", "6", "7", "8", "9",
              "a", "b", "c", "d", "e", "f">>[d + 1]

RECURSIVE Digits(_, _)
Digits(n, base) ==
    IF n < base THEN <<Digit(n)>>
    ELSE Append(Digits(n \div base, base), Digit(n % base))

\* str(n) for an int n >= 0
Str(n) == Digits(n, 10)

RECURSIVE ZeroPad(_, _)
ZeroPad(s, width) == IF Len(s) >= width THEN s ELSE ZeroPad(<<"0">> \o s, width)

\* f"{n:#06x}": "0x" and the hex digits, zero-padded to 6 characters in all
Hex06(n) == <<"0", "x">> \o ZeroPad(Digits(n, 16), 4)

----------------------------------------------------------------------------
(* The OS as the key pipeline sees it *)

\* keyboard layout handles: the low 16 bits are the LANGID, 0 is the null handle
HKL_EN_US == 67699721

HKL_EN == 67698697

HKLs == {0, HKL_EN_US, HKL_EN}

\* the locale names LCIDToLocaleName writes into the buffer
LocaleName(lang_id) ==
    IF lang_id = 1033 THEN <<"e", "n", "-", "U", "S">> ELSE <<"e", "n">>

\* the zero code unit that ends a wide string
NUL == "NUL"

\* what ToUnicodeEx answers: its result and what it left in the buffer.  The
\* result counts the code units produced; the buffer need not be terminated
\* after them and may hold further units, which are not part of the result.
Compositions ==
    { [res |-> 1, buf |-> <<"a">>],
      [res |-> 2, buf |-> <<"a", "b">>],
      [res |-> 1, buf |-> <<"a", NUL, "x">>],
      [res |-> 2, buf |-> <<"a", "b", "x">>],
      [res |-> 1, buf |-> <<" ">>],
      [res |-> 1, buf |-> <<"ESC">>],
      [res |-> 0, buf |-> <<>>],
      [res |-> -1, buf |-> <<"^">>] }

VirtualKeys == {0, 65}

ImagePath == <<"C", ":", "\\", "b", "i", "n", "\\", "a", ".", "e", "x", "e">>

OsStates ==
    [ focus   : BOOLEAN,          \* GetForegroundWindow yields a window
      hkl     : HKLs,             \* what GetKeyboardLayout yields
      lcidOk  : BOOLEAN,          \* LCIDToLocaleName succeeds
      vkEx    : VirtualKeys,      \* MapVirtualKeyExW(scan, MAPVK_VSC_TO_VK_EX, hkl)
      vkPlain : VirtualKeys,      \* MapVirtualKeyW(scan, MAPVK_VSC_TO_VK)
      kbOk    : BOOLEAN,          \* GetKeyboardState succeeds
      compose : Compositions,     \* what ToUnicodeEx yields
      openOk  : BOOLEAN,          \* OpenProcess yields a handle
      query   : {"ok", "fail", "error"} ]  \* QueryFullProcessImageNameW

\* the values the OS fact f ranges over
OsValues(f) == {o[f] : o \in OsStates}

----------------------------------------------------------------------------
(* KeyController *)

UnknownExe == <<"u", "n", "k", "n", "o", "w", "n", ".", "e", "x", "e">>

LangIdPrefix == <<"L", "A", "N", "G", "I", "D", "_">>

\* a ctypes call whose restype is c_void_p yields None for a null pointer
VoidP(h) == [isNone |-> h = 0, v |-> h]

\* hkl & 0xFFFF
LowWord(h) == h % 65536

\* os.path.basename on Windows: what follows the last separator
Basename(path) ==
    LET parts == SplitOn(path, {"\\", "/"}, <<>>)
    IN  parts[Len(parts)]

\* KeyController.get_language
get_language(o) ==
    LET calls3 == <<"GetForegroundWindow", "GetWindowThreadProcessId",
                    "GetKeyboardLayout">>
        hkl == VoidP(o.hkl)
    IN  IF hkl.isNone
        THEN Raise("TypeError", "unsupported operand type(s) for &", calls3)
        ELSE LET lang_id == LowWord(hkl.v)
                 calls4 == Append(calls3, "LCIDToLocaleName")
             IN  IF o.lcidOk
                 THEN Return(LocaleName(lang_id), calls4)
                 ELSE Return(LangIdPrefix \o Hex06(lang_id), calls4)

\* the try body of KeyController.get_process_name: the image-path query
QueryImageName(o, calls) ==
    LET calls1 == Append(calls, "QueryFullProcessImageNameW")
    IN  CASE o.query = "ok" -> Return(Basename(ImagePath), calls1)
          [] o.query = "fail" -> Return(UnknownExe, calls1)
          [] OTHER -> Raise("OSError", "QueryFullProcessImageNameW", calls1)

\* a close that is skipped when the query raises
CloseOnReturn(r) ==
    IF r.outcome = "return" THEN [r EXCEPT !.calls = Append(@, "CloseHandle")] ELSE r

\* the finally clause of KeyController.get_process_name
FinallyClose(r) == [r EXCEPT !.calls = Append(@, "CloseHandle")]

\* KeyController.get_process_name
get_process_name(o) ==
    LET calls1 == <<"GetForegroundWindow">>
    IN  IF ~o.focus THEN Return(UnknownExe, calls1)
        ELSE LET calls3 == calls1 \o <<"GetWindowThreadProcessId", "OpenProcess">>
             IN  IF ~o.openOk THEN Return(UnknownExe, calls3)
                 ELSE FinallyClose(QueryImageName(o, Append(calls3, "OpenProcess->handle")))

\* buf.value of a ctypes wide-character buffer: the units before the first
\* zero unit, the whole buffer when it holds none
BufValue(buf) ==
    LET nul == {i \in 1..Len(buf) : buf[i] = NUL}
    IN  IF nul = {} THEN buf
        ELSE SubSeq(buf, 1, (CHOOSE i \in nul : \A j \in nul : i <= j) - 1)

\* TranslateSteps with step 3 ahead of the test that ends step 2: the modifier
\* state is read before the virtual key code is tested
TranslateStateFirst(scan_code, o) ==
    LET calls1 == <<"GetForegroundWindow">>
    IN  IF ~o.focus
        THEN Raise("ValueError", "Unknown or no foreground window", calls1)
        ELSE
        LET calls4 == calls1 \o <<"GetWindowThreadProcessId", "GetKeyboardLayout",
                                  "MapVirtualKeyExW">>
            calls5 == IF o.vkEx = 0 THEN Append(calls4, "MapVirtualKeyW") ELSE calls4
            vk == IF o.vkEx = 0 THEN o.vkPlain ELSE o.vkEx
            calls6 == Append(calls5, "GetKeyboardState")
            calls7 == Append(calls6, "ToUnicodeEx")
        IN  IF ~o.kbOk THEN Raise("ValueError", "Unknown keyboard state", calls6)
            ELSE IF vk = 0 THEN Return(<<>>, calls6)
            ELSE IF o.compose.res > 0 THEN Return(BufValue(o.compose.buf), calls7)
            ELSE Return(<<>>, calls7)

\* steps 1 to 4 of KeyController.map_scancode_to_char
TranslateSteps(scan_code, o) ==
    LET calls1 == <<"GetForegroundWindow">>
    IN  IF ~o.focus
        THEN Raise("ValueError", "Unknown or no foreground window", calls1)
        ELSE
        LET calls4 == calls1 \o <<"GetWindowThreadProcessId", "GetKeyboardLayout",
                                  "MapVirtualKeyExW">>
            calls5 == IF o.vkEx = 0 THEN Append(calls4, "MapVirtualKeyW") ELSE calls4
            vk == IF o.vkEx = 0 THEN o.vkPlain ELSE o.vkEx
        IN  IF vk = 0 THEN Return(<<>>, calls5)
            ELSE
            LET calls6 == Append(calls5, "GetKeyboardState")
            IN  IF ~o.kbOk
                THEN Raise("ValueError", "Unknown keyboard state", calls6)
                ELSE
                LET calls7 == Append(calls6, "ToUnicodeEx")
                IN  IF o.compose.res > 0
                    THEN Return(BufValue(o.compose.buf), calls7)
                    ELSE Return(<<>>, calls7)

\* map_scancode_to_char without its scan code check
map_scancode_unchecked(scan_code, o) == TranslateSteps(scan_code, o)

\* KeyController.map_scancode_to_char
map_scancode_to_char(scan_code, o) ==
    IF scan_code = 0 THEN Raise("ValueError", "Scan code needed", <<>>)
    ELSE TranslateSteps(scan_code, o)

\* the fields of the Key dataclass, in declaration order
KeyFields == <<"session_id", "key_name", "event", "timestamp", "scan_code",
               "keyboard_layout", "active_window">>

\* Key(*args): the generated __init__ takes one argument per field
Key(args) ==
    IF Len(args) # Len(KeyFields)
    THEN Raise("TypeError", "__init__() missing required positional argument", <<>>)
    ELSE Return([f \in Range(KeyFields) |->
                    args[CHOOSE i \in 1..Len(KeyFields) : KeyFields[i] = f]], <<>>)

\* the arguments build_key passes to Key
KeyArgs(key_name, event, timestamp, scan_code, keyboard_layout, active_window) ==
    <<key_name, event, timestamp, scan_code, keyboard_layout, active_window>>

\* build_key's choice of key_name
KeyName(translated, name) ==
    LET stripped == Strip(translated)
    IN  IF stripped = <<>> \/ (Len(stripped) = 1 /\ stripped[1] \in ControlCc)
        THEN name
        ELSE stripped

\* KeyController.build_key
build_key(key, timestamp, o) ==
    LET tr == map_scancode_to_char(key.scan_code, o)
    IN  IF tr.outcome = "raise" THEN tr
        ELSE
        LET key_name == KeyName(tr.value, key.name)
            lang == get_language(o)
            calls2 == tr.calls \o lang.calls
        IN  IF lang.outcome = "raise" THEN [lang EXCEPT !.calls = calls2]
            ELSE
            LET proc == get_process_name(o)
                calls3 == calls2 \o proc.calls
            IN  IF proc.outcome = "raise" THEN [proc EXCEPT !.calls = calls3]
                ELSE
                LET made == Key(KeyArgs(key_name, key.event_type, timestamp,
                                        key.scan_code, lang.value, proc.value))
                IN  [made EXCEPT !.calls = calls3]

\* process handles opened, and closed, by a call with this call log
Opened(calls) == Count(calls, "OpenProcess->handle")

Closed(calls) == Count(calls, "CloseHandle")

----------------------------------------------------------------------------
(* The key pipeline as a state machine: the hook calls into KeyController  *)
(* while the OS state changes between calls.                               *)

ScanCodes == 0..MaxScanCode

KeyNames == { <<"s", "h", "i", "f", "t">> }

EventTypes == {"DOWN", "UP"}

\* the raw events of the keyboard hook
RawEvents == [name : KeyNames, event_type : EventTypes, scan_code : ScanCodes]

Timestamps == 1..MaxTime

NoCall == [op |-> "none", arg |-> None, res |-> Return(None, <<>>)]

Called(op, arg, res) ==
    /\ last.op = "none"
    /\ last' = [op |-> op, arg |-> arg, res |-> res]
    /\ handles' = handles + Opened(res.calls) - Closed(res.calls)
    /\ UNCHANGED <<os, idVars>>

Translate ==
    \E sc \in ScanCodes : Called("map_scancode_to_char", sc, map_scancode_to_char(sc, os))

GetLanguage == Called("get_language", None, get_language(os))

GetProcessName == Called("get_process_name", None, get_process_name(os))

BuildKey ==
    \E key \in RawEvents, ts \in Timestamps :
        Called("build_key", key, build_key(key, ts, os))

\* the caller has taken the outcome of the call (handle_event prints it)
Resume ==
    /\ last.op # "none"
    /\ last' = NoCall
    /\ UNCHANGED <<os, handles, idVars>>

\* between two calls the OS moves on: one of the facts the pipeline reads changes
OsChange ==
    /\ last.op = "none"
    /\ \E f \in DOMAIN os :
        \E v \in OsValues(f) \ {os[f]} :
            /\ os' = [os EXCEPT ![f] = v]
            /\ UNCHANGED <<last, handles, idVars>>

----------------------------------------------------------------------------
(* The OS as the identity resolvers see it *)

Win32 == <<"w", "i", "n", "3", "2">>

Linux == <<"l", "i", "n", "u", "x">>

Darwin == <<"d", "a", "r", "w", "i", "n">>

Wasi == <<"w", "a", "s", "i">>

\* sys.platform
Platforms == {Win32, Linux, Darwin, Wasi}

\* os.getuid exists on Unix builds only, and getuid(2) cannot fail
HasGetuid(platform) == platform \in {Linux, Darwin}

\* uuid.getnode(): one value for the life of the process
NodeId == 4660

\* the registry under SOFTWARE\Microsoft\Cryptography
RegStates == {"nokey", "novalue", "ok"}

MachineGuid == <<"g", "1">>

Unreadable == [ok |-> FALSE, text |-> <<>>]

File(text) == [ok |-> TRUE, text |-> text]

\* /etc/machine-id and /var/lib/dbus/machine-id
EtcFiles == {Unreadable, File(<<"m", "1", "\n">>), File(<<>>)}

DbusFiles == {Unreadable, File(<<"m", "2", "\n">>)}

IOPlatformUUID ==
    <<"I", "O", "P", "l", "a", "t", "f", "o", "r", "m", "U", "U", "I", "D">>

\* a failed run of a utility, and a run that printed text
Failed == [ok |-> FALSE, out |-> <<>>]

Printed(out) == [ok |-> TRUE, out |-> out]

\* ioreg -rd1 -c IOPlatformExpertDevice
IoregRuns ==
    { Failed,
      Printed(<<"{", "\n", " ", "\"">> \o IOPlatformUUID
              \o <<"\"", " ", "=", " ", "\"", "A", "B", "\"", "\n", "}", "\n">>),
      Printed(<<"\"", "x", "\"", " ", "=", " ", "\"", "y", "\"", "\n">>),
      Printed(IOPlatformUUID \o <<"\n">>) }

SidPrefix == <<"S", "-", "1", "-">>

\* whoami /user
WhoamiRuns ==
    { Failed,
      Printed(<<"N", " ", "S", "I", "D", "\n", "h", "\\", "u", " ">>
              \o SidPrefix \o <<"5", "\n">>),
      Printed(<<" ">> \o SidPrefix \o <<"5", " ", "x", "\n">>),
      Printed(<<"u", " ">> \o SidPrefix \o <<"5", " ">> \o SidPrefix \o <<"9", "\n">>),
      Printed(<<"u", "\n">>) }

\* os.getuid(): root, and the accounts from 1000 on
Uids == {0} \cup {999 + k : k \in 1..MaxUid}

IdOsStates ==
    [ platform : Platforms,
      reg      : RegStates,
      etc      : EtcFiles,
      dbus     : DbusFiles,
      ioreg    : IoregRuns,
      whoami   : WhoamiRuns,
      uid      : Uids ]

\* the values the OS fact f ranges over
IdOsValues(f) == {o[f] : o \in IdOsStates}

\* the facts each platform's branches read that can change while the process
\* runs (its platform and its real user id do not)
IdOsFields(platform) ==
    CASE platform = Win32 -> {"reg", "whoami"}
      [] platform = Linux -> {"etc", "dbus"}
      [] platform = Darwin -> {"ioreg"}
      [] OTHER -> {}

----------------------------------------------------------------------------
(* SystemInfo *)

Tag(t, v) == t \o v

TagWin == <<"w", "i", "n", ":">>

TagLinux == <<"l", "i", "n", "u", "x", ":">>

TagMac == <<"m", "a", "c", ":">>

TagFbMac == <<"f", "b", "_", "m", "a", "c", ":">>

TagSid == <<"s", "i", "d", ":">>

TagUid == <<"u", "i", "d", ":">>

Unknown == <<"u", "n", "k", "n", "o", "w", "n">>

\* the last statement of _get_device_id
Fallback(o, calls) ==
    Return(Tag(TagFbMac, Str(NodeId)), Append(calls, "uuid.getnode"))

\* the Windows branch of _get_device_id
DeviceIdWin(o) ==
    LET calls1 == <<"winreg.OpenKey">>
        calls2 == Append(calls1, "winreg.QueryValueEx")
    IN  CASE o.reg = "ok" -> Return(Tag(TagWin, MachineGuid), calls2)
          [] o.reg = "novalue" -> Fallback(o, calls2)
          [] OTHER -> Fallback(o, calls1)

\* the Linux branch with its two locations in the other order
DeviceIdLinuxDbusFirst(o) ==
    LET calls1 == <<"open /var/lib/dbus/machine-id">>
        calls2 == Append(calls1, "open /etc/machine-id")
    IN  IF o.dbus.ok THEN Return(Tag(TagLinux, Strip(o.dbus.text)), calls1)
        ELSE IF o.etc.ok THEN Return(Tag(TagLinux, Strip(o.etc.text)), calls2)
        ELSE Fallback(o, calls2)

\* the Linux branch of _get_device_id
DeviceIdLinux(o) ==
    LET calls1 == <<"open /etc/machine-id">>
        calls2 == Append(calls1, "open /var/lib/dbus/machine-id")
    IN  IF o.etc.ok THEN Return(Tag(TagLinux, Strip(o.etc.text)), calls1)
        ELSE IF o.dbus.ok THEN Return(Tag(TagLinux, Strip(o.dbus.text)), calls2)
        ELSE Fallback(o, calls2)

\* line.split('"')[-2]
SecondToLast(parts) ==
    IF Len(parts) >= 2
    THEN Return(parts[Len(parts) - 1], <<>>)
    ELSE Raise("IndexError", "list index out of range", <<>>)

\* the macOS branch with an except clause that does not catch IndexError
DeviceIdMacUncaught(o) ==
    LET calls1 == <<"ioreg">>
        lines == SelectSeq(SplitLines(o.ioreg.out),
                           LAMBDA line : Contains(line, IOPlatformUUID))
    IN  IF ~o.ioreg.ok \/ lines = <<>> THEN Fallback(o, calls1)
        ELSE LET uuid == SecondToLast(Split(lines[1], "\""))
             IN  IF uuid.outcome = "raise" THEN [uuid EXCEPT !.calls = calls1]
                 ELSE Return(Tag(TagMac, uuid.value), calls1)

\* the macOS branch of _get_device_id
DeviceIdMac(o) ==
    LET calls1 == <<"ioreg">>
        lines == SelectSeq(SplitLines(o.ioreg.out),
                           LAMBDA line : Contains(line, IOPlatformUUID))
    IN  IF ~o.ioreg.ok \/ lines = <<>> THEN Fallback(o, calls1)
        ELSE LET uuid == SecondToLast(Split(lines[1], "\""))
             IN  IF uuid.outcome = "raise" THEN Fallback(o, calls1)
                 ELSE Return(Tag(TagMac, uuid.value), calls1)

\* _get_device_id behind a process-wide cache of its first result
get_device_id_cached(o) ==
    IF ncalls.dev > 0 THEN Return(first.dev, <<>>)
    ELSE IF StartsWith(o.platform, <<"w", "i", "n">>) THEN DeviceIdWin(o)
    ELSE IF StartsWith(o.platform, Linux) THEN DeviceIdLinux(o)
    ELSE IF o.platform = Darwin THEN DeviceIdMac(o)
    ELSE Fallback(o, <<>>)

\* SystemInfo._get_device_id
get_device_id(o) ==
    IF StartsWith(o.platform, <<"w", "i", "n">>) THEN DeviceIdWin(o)
    ELSE IF StartsWith(o.platform, Linux) THEN DeviceIdLinux(o)
    ELSE IF o.platform = Darwin THEN DeviceIdMac(o)
    ELSE Fallback(o, <<>>)

\* the scan of whoami's output in _get_account_id
ScanSid(out) ==
    LET lines == SelectSeq(SplitLines(out),
                           LAMBDA line : StartsWith(Strip(line), SidPrefix))
        parts == SelectSeq(SplitWhitespace(out), LAMBDA p : StartsWith(p, SidPrefix))
    IN  IF lines # <<>> THEN Tag(TagSid, Strip(lines[1]))
        ELSE IF parts # <<>> THEN Tag(TagSid, parts[Len(parts)])
        ELSE Tag(TagSid, Unknown)

\* the Windows branch of _get_account_id
AccountIdWin(o) ==
    IF o.whoami.ok
    THEN Return(ScanSid(o.whoami.out), <<"whoami /user">>)
    ELSE Raise("CalledProcessError", "whoami /user", <<"whoami /user">>)

\* the other branch of _get_account_id
AccountIdPosix(o) ==
    IF HasGetuid(o.platform)
    THEN Return(Tag(TagUid, Str(o.uid)), <<"os.getuid">>)
    ELSE Return(Tag(TagUid, Unknown), <<"os.getuid">>)

\* SystemInfo._get_account_id
get_account_id(o) ==
    IF StartsWith(o.platform, <<"w", "i", "n">>) THEN AccountIdWin(o)
    ELSE AccountIdPosix(o)

HostName == <<"h">>

UserName == <<"u">>

\* SystemInfo.__init__
SystemInfo(o) ==
    LET dev == get_device_id(o)
        acc == get_account_id(o)
        calls == dev.calls \o acc.calls
    IN  IF dev.outcome = "raise" THEN dev
        ELSE IF acc.outcome = "raise" THEN [acc EXCEPT !.calls = calls]
        ELSE Return([device_id |-> dev.value, account_id |-> acc.value,
                     device_name |-> HostName, username |-> UserName,
                     platform |-> o.platform],
                    calls \o <<"socket.gethostname", "getpass.getuser">>)

\* the device_id and account_id properties of a SystemInfo object
Properties(obj) == [device_id |-> obj.device_id, account_id |-> obj.account_id]

\* the fields kept on the class, shared by every object, not on the instance
ConstructedShared(objs, obj) == [i \in 1..(Len(objs) + 1) |-> obj]

\* the objects alive once __init__ has returned obj
Constructed(objs, obj) == Append(objs, obj)

----------------------------------------------------------------------------
(* The identity resolvers as a state machine: the process resolves and     *)
(* constructs SystemInfo objects while the OS state changes between calls. *)

\* what a call gave back: the value it returned, or that it raised
Raised == <<"<raised>">>

NotYet == <<"<not called>">>

Given(res) == IF res.outcome = "return" THEN res.value ELSE Raised

\* 1 when the call went to the OS, 0 when it did not
Queried(res) == IF res.calls # <<>> THEN 1 ELSE 0

IdIdle == [op |-> "none", arg |-> 0, res |-> Return(None, <<>>)]

IdCalled(op, arg, res) ==
    /\ idlast.op = "none"
    /\ idlast' = [op |-> op, arg |-> arg, res |-> res]

\* the bookkeeping of one call of the device resolver, and of the account resolver
DeviceCalled(res) ==
    [n |-> ncalls.dev + 1, q |-> queries.dev + Queried(res),
     f |-> IF ncalls.dev = 0 THEN Given(res) ELSE first.dev]

AccountCalled(res) ==
    [n |-> ncalls.acc + 1, q |-> queries.acc + Queried(res),
     f |-> IF ncalls.acc = 0 THEN Given(res) ELSE first.acc]

ResolveDevice ==
    /\ ncalls.dev < MaxCalls
    /\ LET res == get_device_id(idos)
           c == DeviceCalled(res)
       IN  /\ IdCalled("_get_device_id", 0, res)
           /\ ncalls' = [ncalls EXCEPT !.dev = c.n]
           /\ queries' = [queries EXCEPT !.dev = c.q]
           /\ first' = [first EXCEPT !.dev = c.f]
    /\ UNCHANGED <<idos, snapshots, changed, keyVars>>

ResolveAccount ==
    /\ ncalls.acc < MaxCalls
    /\ LET res == get_account_id(idos)
           c == AccountCalled(res)
       IN  /\ IdCalled("_get_account_id", 0, res)
           /\ ncalls' = [ncalls EXCEPT !.acc = c.n]
           /\ queries' = [queries EXCEPT !.acc = c.q]
           /\ first' = [first EXCEPT !.acc = c.f]
    /\ UNCHANGED <<idos, snapshots, changed, keyVars>>

Construct ==
    /\ ncalls.dev < MaxCalls
    /\ ncalls.acc < MaxCalls
    /\ LET d == DeviceCalled(get_device_id(idos))
           a == AccountCalled(get_account_id(idos))
           res == SystemInfo(idos)
       IN  /\ IdCalled("SystemInfo", 0, res)
           /\ ncalls' = [dev |-> d.n, acc |-> a.n]
           /\ queries' = [dev |-> d.q, acc |-> a.q]
           /\ first' = [dev |-> d.f, acc |-> a.f]
           /\ snapshots' = IF res.outcome = "return"
                           THEN Constructed(snapshots, res.value)
                           ELSE snapshots
    /\ UNCHANGED <<idos, changed, keyVars>>

ReadProperties ==
    \E i \in DOMAIN snapshots :
        /\ IdCalled("properties", i, Return(Properties(snapshots[i]), <<>>))
        /\ UNCHANGED <<idos, ncalls, queries, first, snapshots, changed, keyVars>>

\* the caller has taken the outcome of the call
IdResume ==
    /\ idlast.op # "none"
    /\ idlast' = IdIdle
    /\ UNCHANGED <<idos, ncalls, queries, first, snapshots, changed, keyVars>>

\* between two calls the OS moves on: one of the facts the platform's
\* branches read changes
IdOsChange ==
    /\ idlast.op = "none"
    /\ \E f \in IdOsFields(idos.platform) :
        \E v \in IdOsValues(f) \ {idos[f]} :
            /\ idos' = [idos EXCEPT ![f] = v]
            /\ changed' = (changed \/ snapshots # <<>>)
            /\ UNCHANGED <<idlast, ncalls, queries, first, snapshots, keyVars>>

----------------------------------------------------------------------------
(* Specifications *)

KeyInit ==
    /\ os = [focus |-> TRUE, hkl |-> HKL_EN_US, lcidOk |-> TRUE, vkEx |-> 65,
             vkPlain |-> 65, kbOk |-> TRUE, compose |-> [res |-> 1, buf |-> <<"a">>],
             openOk |-> TRUE, query |-> "ok"]
    /\ last = NoCall
    /\ handles = 0

IdInit ==
    /\ idos \in {o \in IdOsStates :
                    /\ o.reg = "ok"
                    /\ o.etc = File(<<"m", "1", "\n">>)
                    /\ o.dbus = File(<<"m", "2", "\n">>)
                    /\ o.ioreg = Failed
                    /\ o.whoami = Failed
                    /\ ~HasGetuid(o.platform) => o.uid = 0}
    /\ idlast = IdIdle
    /\ ncalls = [dev |-> 0, acc |-> 0]
    /\ queries = [dev |-> 0, acc |-> 0]
    /\ first = [dev |-> NotYet, acc |-> NotYet]
    /\ snapshots = <<>>
    /\ changed = FALSE

\* the key pipeline, in a process on Linux that resolves no identity
Init == KeyInit /\ IdInit /\ idos.platform = Linux /\ idos.uid = 0

Next == Translate \/ GetLanguage \/ GetProcessName \/ BuildKey \/ Resume \/ OsChange

Spec == Init /\ [][Next]_vars

\* the identity resolvers, on each platform, in a process that handles no key
IdInitial == KeyInit /\ IdInit

IdNext ==
    \/ ResolveDevice \/ ResolveAccount \/ Construct \/ ReadProperties
    \/ IdResume \/ IdOsChange

IdSpec == IdInitial /\ [][IdNext]_vars

----------------------------------------------------------------------------
(* Claims about the key pipeline, checked under Spec.  While a call's      *)
(* outcome is held in last, os is the OS state the call ran in.            *)

LastIs(op) == last.op = op

\* the string is "LANGID_0x" followed by exactly 4 hex digits
HexDigitChars == {Digit(d) : d \in 0..15}

IsLangIdLiteral(v) ==
    /\ Len(v) = Len(LangIdPrefix) + 6
    /\ SubSeq(v, 1, Len(LangIdPrefix) + 2) = LangIdPrefix \o <<"0", "x">>
    /\ \A i \in (Len(LangIdPrefix) + 3)..Len(v) : v[i] \in HexDigitChars

\* C1 (as claimed): for a non-zero scan code, with a focused window and a
\* readable modifier state, build_key returns a Key whose key_name is not
\* empty and whose event is "DOWN" or "UP"; it never ends in an error there.
C1_BuildReturnsKey ==
    (LastIs("build_key") /\ last.arg.scan_code # 0 /\ os.focus /\ os.kbOk)
        => /\ last.res.outcome = "return"
           /\ last.res.value.key_name # <<>>
           /\ last.res.value.event \in {"DOWN", "UP"}

\* C2 (as claimed): for a non-zero scan code, build_key ends in an error only
\* when the modifier state cannot be read: never because no window is
\* focused, the layout is unresolvable or the key is unmappable.
C2_BuildFailsOnlyOnUnreadableState ==
    (LastIs("build_key") /\ last.arg.scan_code # 0 /\ last.res.outcome = "raise")
        => /\ ~os.kbOk
           /\ last.res.msg = "Unknown keyboard state"

\* C3: map_scancode_to_char(0) raises the invalid-input error (ValueError,
\* "Scan code needed") in every OS state, and has made no OS call by then.
C3_ZeroScanCodeIsInvalidInput ==
    (LastIs("map_scancode_to_char") /\ last.arg = 0)
        => /\ last.res.outcome = "raise"
           /\ last.res.exc = "ValueError"
           /\ last.res.msg = "Scan code needed"
           /\ last.res.calls = <<>>

\* C3 witness: scan code 0 was translated with no focused window and an
\* unreadable modifier state, where the later steps would have failed.
C3_Witness ==
    /\ LastIs("map_scancode_to_char")
    /\ last.arg = 0
    /\ ~os.focus
    /\ ~os.kbOk
    /\ last.res.outcome = "raise"

\* C7 (as claimed): get_language never raises, and with no focused window it
\* returns "LANGID_0x" followed by exactly 4 hex digits, also when
\* GetKeyboardLayout yields a null handle.
C7_LanguageNeverRaises ==
    LastIs("get_language")
        => /\ last.res.outcome = "return"
           /\ ~os.focus => IsLangIdLiteral(last.res.value)

\* C10: when get_process_name has returned or raised, every process handle it
\* opened has been closed exactly once, after it was opened, no close was
\* issued without an open, and the process holds no process handle.
C10_HandleReleased ==
    /\ handles = 0
    /\ LastIs("get_process_name") =>
        LET calls == last.res.calls
        IN  /\ Opened(calls) = Closed(calls)
            /\ Closed(calls) <= 1
            /\ \A i \in 1..Len(calls) :
                  calls[i] = "CloseHandle" =>
                      \E j \in 1..(i - 1) : calls[j] = "OpenProcess->handle"
            /\ ~os.openOk => Closed(calls) = 0

\* C10 witness: the image-path query raised after a successful open, and the
\* handle was closed on the way out.
C10_Witness ==
    /\ LastIs("get_process_name")
    /\ last.res.outcome = "raise"
    /\ Opened(last.res.calls) = 1
    /\ Closed(last.res.calls) = 1
    /\ handles = 0

\* translate went past every early exit: a non-zero scan code, a focused
\* window, a virtual key code and a readable modifier state
Composed ==
    /\ LastIs("map_scancode_to_char")
    /\ last.arg # 0
    /\ os.focus
    /\ (os.vkEx # 0 \/ os.vkPlain # 0)
    /\ os.kbOk

\* the code units ToUnicodeEx produced: the first res units of its buffer
Produced(c) == SubSeq(c.buf, 1, c.res)

\* C11 (as claimed): for a non-zero scan code with a focused window, a mapped
\* virtual key and a readable modifier state, translate never raises; it
\* returns the code units ToUnicodeEx produced when the composition result is
\* positive, and the empty string when the result is zero or negative.
C11_ResultFollowsComposition ==
    Composed
        => /\ last.res.outcome = "return"
           /\ os.compose.res > 0 => last.res.value = Produced(os.compose)
           /\ os.compose.res <= 0 => last.res.value = <<>>

\* the OS call c is in the log calls / a comes before b in it
Made(calls, c) == \E i \in 1..Len(calls) : calls[i] = c

Before(calls, a, b) ==
    \A i, j \in 1..Len(calls) : (calls[i] = a /\ calls[j] = b) => i < j

\* C12: translate of a non-zero scan code follows its step order.  The
\* focused-window check comes first: GetForegroundWindow is the first OS call,
\* and with no focused window translate raises right after it, whatever the
\* mappings would yield.  MapVirtualKeyW is called only when MapVirtualKeyExW
\* yielded zero, and after it.  When both yield zero translate returns the
\* empty string and GetKeyboardState is never called, so "Unknown keyboard
\* state" is raised exactly when a virtual key code was found and the state
\* is unreadable.
C12_StepOrder ==
    (LastIs("map_scancode_to_char") /\ last.arg # 0)
        => LET calls == last.res.calls
               found == os.vkEx # 0 \/ os.vkPlain # 0
           IN  /\ Len(calls) > 0 /\ calls[1] = "GetForegroundWindow"
               /\ ~os.focus
                    => /\ last.res.outcome = "raise"
                       /\ last.res.exc = "ValueError"
                       /\ last.res.msg = "Unknown or no foreground window"
                       /\ calls = <<"GetForegroundWindow">>
               /\ Made(calls, "MapVirtualKeyExW") <=> os.focus
               /\ Made(calls, "MapVirtualKeyW") <=> (os.focus /\ os.vkEx = 0)
               /\ Before(calls, "MapVirtualKeyExW", "MapVirtualKeyW")
               /\ (os.focus /\ ~found)
                    => /\ last.res.outcome = "return"
                       /\ last.res.value = <<>>
                       /\ ~Made(calls, "GetKeyboardState")
               /\ Made(calls, "GetKeyboardState") <=> (os.focus /\ found)
               /\ Before(calls, "MapVirtualKeyExW", "GetKeyboardState")
               /\ Before(calls, "MapVirtualKeyW", "GetKeyboardState")
               /\ (last.res.outcome = "raise" /\ last.res.msg = "Unknown keyboard state")
                    <=> (os.focus /\ found /\ ~os.kbOk)

\* C12 witness: a non-zero scan code that neither mapping knows was
\* translated while the modifier state was unreadable; both mappings were
\* tried and translate returned the empty string.
C12_Witness ==
    /\ LastIs("map_scancode_to_char")
    /\ last.arg # 0
    /\ os.focus
    /\ os.vkEx = 0
    /\ os.vkPlain = 0
    /\ ~os.kbOk
    /\ Made(last.res.calls, "MapVirtualKeyW")
    /\ last.res.outcome = "return"
    /\ last.res.value = <<>>

----------------------------------------------------------------------------
(* Claims about the identity resolvers, checked under IdSpec.  While a     *)
(* call's outcome is held in idlast, idos is the OS state the call ran in. *)

IdLastIs(op) == idlast.op = op

DeviceTags == {TagWin, TagLinux, TagMac, TagFbMac}

DecimalChars == {Digit(d) : d \in 0..9}

\* s is the decimal numeral of a non-negative integer
IsDecimal(s) == s # <<>> /\ \A i \in 1..Len(s) : s[i] \in DecimalChars

\* t is one security-identifier token: "S-1-...", no whitespace inside
IsSidToken(t) ==
    /\ StartsWith(t, SidPrefix)
    /\ \A i \in 1..Len(t) : t[i] \notin Whitespace

OnWindows == StartsWith(idos.platform, <<"w", "i", "n">>)

\* C4: _get_device_id never raises; whatever the platform and whichever of
\* its reads fail, it returns a non-empty string that begins with exactly one
\* of "win:", "linux:", "mac:", "fb_mac:".
C4_DeviceIdTagged ==
    IdLastIs("_get_device_id")
        => /\ idlast.res.outcome = "return"
           /\ idlast.res.value # <<>>
           /\ Cardinality({t \in DeviceTags : StartsWith(idlast.res.value, t)}) = 1

\* C4 witness: on macOS ioreg printed the key on a line without quotes, the
\* parse failed, and the resolver still returned a tagged string.
C4_Witness ==
    /\ IdLastIs("_get_device_id")
    /\ idos.platform = Darwin
    /\ idos.ioreg = Printed(IOPlatformUUID \o <<"\n">>)
    /\ idlast.res.outcome = "return"
    /\ StartsWith(idlast.res.value, TagFbMac)

\* C5 (as claimed): on a POSIX-like target _get_account_id returns "uid:" and
\* a non-negative integer; on Windows, whatever whoami printed, it returns
\* "sid:unknown" or "sid:" and one well-formed SID token, with no whitespace
\* or trailing text.
C5_AccountIdWellFormed ==
    (IdLastIs("_get_account_id") /\ idlast.res.outcome = "return")
        => LET v == idlast.res.value
               rest == SubSeq(v, 5, Len(v))
           IN  /\ HasGetuid(idos.platform)
                    => StartsWith(v, TagUid) /\ IsDecimal(rest)
               /\ OnWindows
                    => \/ v = Tag(TagSid, Unknown)
                       \/ StartsWith(v, TagSid) /\ IsSidToken(rest)

\* C6 (as claimed): _get_account_id never raises: when the query behind it
\* fails it returns its sentinel, "sid:unknown" on Windows and "uid:unknown"
\* elsewhere.
C6_AccountIdNeverRaises ==
    IdLastIs("_get_account_id")
        => /\ idlast.res.outcome = "return"
           /\ (OnWindows /\ ~idos.whoami.ok) => idlast.res.value = Tag(TagSid, Unknown)
           /\ (~OnWindows /\ ~HasGetuid(idos.platform))
                  => idlast.res.value = Tag(TagUid, Unknown)

SameIds(a, b) == a.device_id = b.device_id /\ a.account_id = b.account_id

\* C8 (as claimed): any two SystemInfo objects constructed in one process have
\* the same device_id and the same account_id, whatever happened between the
\* two constructions.
C8_ConstructionsAgree ==
    \A i, j \in DOMAIN snapshots : SameIds(snapshots[i], snapshots[j])

\* C8 (amended): the fields of a constructed SystemInfo never change, whatever
\* is resolved or changes in the OS afterwards; and the objects constructed
\* while the OS state the resolvers read has not changed since the first
\* construction all have the same device_id and account_id.
C8_FieldsFixed ==
    [][ /\ \A i \in DOMAIN snapshots :
              i \in DOMAIN snapshots' /\ snapshots'[i] = snapshots[i]
        /\ ~changed' => \A i, j \in DOMAIN snapshots' :
                            SameIds(snapshots'[i], snapshots'[j]) ]_vars

\* C8 witness: two objects were constructed with no OS change in between, the
\* OS state changed afterwards, and the first object's properties were read.
C8_Witness ==
    /\ Len(snapshots) = 2
    /\ SameIds(snapshots[1], snapshots[2])
    /\ changed
    /\ IdLastIs("properties")
    /\ idlast.arg = 1
    /\ get_device_id(idos).value # snapshots[1].device_id

\* C9 (as claimed): each resolver queries the OS at most once in the life of
\* the process, and every call after the first returns the first value.
C9_ResolvedOnce ==
    /\ queries.dev <= 1
    /\ queries.acc <= 1
    /\ (IdLastIs("_get_device_id") /\ idlast.res.outcome = "return")
           => idlast.res.value = first.dev
    /\ (IdLastIs("_get_account_id") /\ idlast.res.outcome = "return")
           => idlast.res.value = first.acc

\* C9 (amended): the resolvers keep no cache: every call of _get_device_id and
\* of _get_account_id, also the calls made by a SystemInfo construction,
\* queries the OS again, and a direct call returns what the OS answers at that
\* moment, which may differ from the first value.
C9_EveryCallQueries ==
    /\ queries.dev = ncalls.dev
    /\ queries.acc = ncalls.acc
    /\ IdLastIs("_get_device_id") => idlast.res.calls # <<>>
    /\ IdLastIs("_get_account_id") => idlast.res.calls # <<>>

\* C9 witness: the device resolver was called a second time, queried the OS
\* again and returned a value other than its first.
C9_Witness ==
    /\ IdLastIs("_get_device_id")
    /\ ncalls.dev = 2
    /\ queries.dev = 2
    /\ idlast.res.value # first.dev

\* the platform families _get_device_id tells apart
OnLinux == StartsWith(idos.platform, Linux)

OnMac == idos.platform = Darwin

\* the OS calls of each platform branch
WinCalls == {"winreg.OpenKey", "winreg.QueryValueEx"}

LinuxCalls == {"open /etc/machine-id", "open /var/lib/dbus/machine-id"}

MacCalls == {"ioreg"}

\* what makes each branch succeed: the registry value is there; one of the
\* two files is readable; ioreg printed a line naming the key, and the first
\* such line holds a quotation mark to split at
WinSucceeds == idos.reg = "ok"

LinuxSucceeds == idos.etc.ok \/ idos.dbus.ok

MacSucceeds ==
    LET lines == SelectSeq(SplitLines(idos.ioreg.out),
                           LAMBDA line : Contains(line, IOPlatformUUID))
    IN  idos.ioreg.ok /\ lines # <<>> /\ Contains(lines[1], <<"\"">>)

BranchSucceeds ==
    \/ OnWindows /\ WinSucceeds
    \/ OnLinux /\ LinuxSucceeds
    \/ OnMac /\ MacSucceeds

\* C13: _get_device_id selects its strategy by platform and order.  Only the
\* OS calls of the current platform's branch are made.  On Linux
\* /etc/machine-id is opened first and its content is the result when it is
\* readable; /var/lib/dbus/machine-id is opened only when the first is
\* unreadable.  The result begins with "win:", "linux:" or "mac:" exactly when
\* that platform's branch succeeded, and with "fb_mac:", after uuid.getnode,
\* exactly when the platform's branch failed or the platform has no branch.
C13_StrategyByPlatform ==
    IdLastIs("_get_device_id")
        => LET calls == idlast.res.calls
               v == idlast.res.value
               etc == "open /etc/machine-id"
               dbus == "open /var/lib/dbus/machine-id"
           IN  /\ idlast.res.outcome = "return"
               /\ \A c \in WinCalls : Made(calls, c) => OnWindows
               /\ \A c \in LinuxCalls : Made(calls, c) => OnLinux
               /\ \A c \in MacCalls : Made(calls, c) => OnMac
               /\ Made(calls, "winreg.OpenKey") <=> OnWindows
               /\ Made(calls, etc) <=> OnLinux
               /\ Made(calls, "ioreg") <=> OnMac
               /\ Made(calls, dbus) <=> (OnLinux /\ ~idos.etc.ok)
               /\ Before(calls, etc, dbus)
               /\ (OnLinux /\ idos.etc.ok)
                    => v = Tag(TagLinux, Strip(idos.etc.text))
               /\ (OnLinux /\ ~idos.etc.ok /\ idos.dbus.ok)
                    => v = Tag(TagLinux, Strip(idos.dbus.text))
               /\ StartsWith(v, TagWin) <=> (OnWindows /\ WinSucceeds)
               /\ StartsWith(v, TagLinux) <=> (OnLinux /\ LinuxSucceeds)
               /\ StartsWith(v, TagMac) <=> (OnMac /\ MacSucceeds)
               /\ StartsWith(v, TagFbMac) <=> ~BranchSucceeds
               /\ Made(calls, "uuid.getnode") <=> ~BranchSucceeds

\* C13 witness: on Linux /etc/machine-id was unreadable and
\* /var/lib/dbus/machine-id readable; both were opened, in that order, and
\* the result is the second file's content under "linux:".
C13_Witness ==
    /\ IdLastIs("_get_device_id")
    /\ OnLinux
    /\ ~idos.etc.ok
    /\ idos.dbus.ok
    /\ idlast.res.calls = <<"open /etc/machine-id", "open /var/lib/dbus/machine-id">>
    /\ idlast.res.value = Tag(TagLinux, <<"m", "2">>)

====
